---------------------------- MODULE Spec2Model ----------------------------
(***************************************************************************)
(* A model of the CC-HW2 repository:                                       *)
(*   - pagerank_bucket.py : download_pages_build_graph (the graph builder)  *)
(*                          and pagerank_iterative (the solver);            *)
(*   - main_service2.py   : the Pub/Sub log-appender (callback and          *)
(*                          append_to_gcs).                                 *)
(* Floating-point values are modelled as exact rationals <<num, den>> in    *)
(* lowest terms with den > 0, so equalities such as "the ranks sum to 1"    *)
(* are exact here and hold up to rounding in the Python program.            *)
(***************************************************************************)
EXTENDS Integers, Sequences, FiniteSets, TLC

VARIABLES
    \* ---- pagerank_iterative (pagerank_bucket.py:101-149)
    n,              \* parameter n
    outlinks,       \* parameter outlinks (also the dict built by the graph builder)
    d,              \* parameter d (rational)
    tol,            \* parameter tol (rational)
    max_iter,       \* parameter max_iter
    incoming,       \* local incoming: page -> sequence of sources
    outdeg,         \* local outdeg
    pr,             \* local pr, the current rank vector
    new_pr,         \* local new_pr, the vector under construction
    prev_sum,       \* local prev_sum
    dangling_mass,  \* local dangling_mass
    it,             \* loop variable it
    a,              \* inner loop variable a
    passed,         \* history: outcome of the convergence test of each round so far
    result,         \* the returned (pr, iters), with status "running" until then
    pc,             \* position inside pagerank_iterative
    \* ---- download_pages_build_graph (pagerank_bucket.py:55-98)
    n_pages,        \* local n_pages
    indeg,          \* local indeg (a defaultdict: only touched keys are present)
    i,              \* loop variable i
    html,           \* local html: the text of the page being processed
    failed,         \* history: ids whose download raised
    fetched,        \* history: ids whose download was attempted
    gpc,            \* position inside download_pages_build_graph
    \* ---- main_service2.py
    blob,           \* the log object: whether it exists and the lines it holds
    kind,           \* per message: what its data decodes to
    mpc,            \* per message: position of its callback
    existing,       \* per message: local existing of append_to_gcs
    deliveries,     \* per message: number of deliveries so far
    uploads,        \* history, per message: the deliveries whose upload completed
    acks,           \* history, per message: the deliveries ended by message.ack()
    nacks,          \* history, per message: the deliveries ended by message.nack()
    raised          \* history, per message: the deliveries in which the try block raised

prvars  == <<n, d, tol, max_iter, incoming, outdeg, pr, new_pr, prev_sum,
             dangling_mass, it, a, passed, result, pc>>
gvars   == <<n_pages, indeg, i, html, failed, fetched, gpc>>
lvars   == <<blob, kind, mpc, existing, deliveries, uploads, acks, nacks, raised>>
vars    == <<prvars, outlinks, gvars, lvars>>

-----------------------------------------------------------------------------
(* Bounds of the model. *)
MaxN      == 2   \* pages given to the solver: n in -1..MaxN
MaxLinks  == 3   \* total number of links of a solver input graph
MaxIter   == 2   \* max_iter in 0..MaxIter
MaxPages  == 2   \* pages of the graph builder
MaxTokens == 2   \* tokens of one page's html
MaxMsgs   == 2   \* Pub/Sub messages
MaxDeliv  == 2   \* deliveries of one message

-----------------------------------------------------------------------------
(* Exact rationals standing for Python floats. *)
RECURSIVE GCD(_, _)
GCD(x, y) == IF y = 0 THEN x ELSE GCD(y, x % y)

Abs(x) == IF x < 0 THEN -x ELSE x

Norm(num, den) ==
    LET g == GCD(Abs(num), Abs(den))
        s == IF den < 0 THEN -1 ELSE 1
    IN  <<s * (num \div g), s * (den \div g)>>

Rat(k) == <<k, 1>>

RAdd(x, y) ==
    LET g == GCD(x[2], y[2])
        l == (x[2] \div g) * y[2]
    IN  Norm(x[1] * (l \div x[2]) + y[1] * (l \div y[2]), l)

RNeg(x) == <<-x[1], x[2]>>
RSub(x, y) == RAdd(x, RNeg(y))
RAbs(x) == <<Abs(x[1]), x[2]>>

RMul(x, y) ==
    LET g1 == GCD(Abs(x[1]), y[2])
        g2 == GCD(Abs(y[1]), x[2])
        h1 == IF g1 = 0 THEN 1 ELSE g1
        h2 == IF g2 = 0 THEN 1 ELSE g2
    IN  Norm((x[1] \div h1) * (y[1] \div h2), (x[2] \div h2) * (y[2] \div h1))

\* x / k for a non-zero integer k
RDivInt(x, k) == RMul(x, Norm(1, k))

RLeq(x, y) == RSub(x, y)[1] <= 0
RLt(x, y)  == RSub(x, y)[1] < 0

\* sum(f[k] for k in lo..hi), Python's left-to-right sum starting from 0
RECURSIVE RSum(_, _, _)
RSum(f, lo, hi) == IF hi < lo THEN Rat(0) ELSE RAdd(RSum(f, lo, hi - 1), f[hi])


-----------------------------------------------------------------------------
(* pagerank_iterative: inputs. *)

\* d: three valid damping factors (0, 1/2, the default 0.85) and the invalid 1
Dampings == {<<0, 1>>, <<1, 2>>, <<17, 20>>, <<1, 1>>}

\* tol: 0, the default 0.005, and 1/2
Tols == {<<0, 1>>, <<1, 200>>, <<1, 2>>}

Lists(k, m) == UNION {[1..len -> 0..(k - 1)] : len \in 0..m}

\* the adjacency lists of pages 0..p-1 (as a sequence) with at most budget links
RECURSIVE GraphsUpTo(_, _, _)
GraphsUpTo(k, p, budget) ==
    IF p = 0 THEN {<<>>}
    ELSE UNION {{Append(g, l) : g \in GraphsUpTo(k, p - 1, budget - Len(l))}
                    : l \in Lists(k, budget)}

\* every dict with keys 0..k-1 whose destinations lie in 0..k-1
Graphs(k) ==
    IF k <= 0 THEN {<<>>}
    ELSE {[s \in 0..(k - 1) |-> g[s + 1]] : g \in GraphsUpTo(k, k, MaxLinks)}

-----------------------------------------------------------------------------
(* pagerank_iterative: helpers, computed as the code computes them. *)

\* outlinks.get(src, [])
OutlinksGet(src) == IF src \in DOMAIN outlinks THEN outlinks[src] ELSE <<>>

\* for dst in outs: incoming[dst].append(src)
RECURSIVE AppendAll(_, _, _)
AppendAll(inc, src, outs) ==
    IF outs = <<>> THEN inc
    ELSE AppendAll([inc EXCEPT ![Head(outs)] = Append(@, src)], src, Tail(outs))

\* for src in range(n): ...
RECURSIVE BuildIncoming(_, _)
BuildIncoming(inc, src) ==
    IF src >= n THEN inc
    ELSE BuildIncoming(AppendAll(inc, src, OutlinksGet(src)), src + 1)

\* base = (1.0 - d) / n
baseSignSlip == RDivInt(RSub(d, Rat(1)), n)
base == RDivInt(RSub(Rat(1), d), n)

\* sum(pr[i] for i in range(n) if outdeg[i] == 0)
DanglingMassDropped(ranks) == Rat(0)
DanglingMass(ranks) ==
    RSum([k \in 0..(n - 1) |-> IF outdeg[k] = 0 THEN ranks[k] ELSE Rat(0)], 0, n - 1)

\* for t in incoming[a]: c = outdeg[t]; if c > 0: s += ranks[t] / c
RECURSIVE Contributions(_, _, _)
Contributions(srcs, ranks, s) ==
    IF srcs = <<>> THEN s
    ELSE LET t == Head(srcs)
             c == outdeg[t]
         IN  Contributions(Tail(srcs), ranks,
                           IF c > 0 THEN RAdd(s, RDivInt(ranks[t], c)) ELSE s)

\* the in-place (Gauss-Seidel) slip: pages already updated are read from new_pr
NewRankInPlace(k) ==
    LET mixed == [t \in 0..(n - 1) |-> IF t < k THEN new_pr[t] ELSE pr[t]]
        s == RAdd(Contributions(incoming[k], mixed, Rat(0)), RDivInt(dangling_mass, n))
    IN  RAdd(base, RMul(d, s))

\* the body of "for a in range(n)": the value stored in new_pr[k]
NewRank(k) ==
    LET s == RAdd(Contributions(incoming[k], pr, Rat(0)), RDivInt(dangling_mass, n))
    IN  RAdd(base, RMul(d, s))

\* delta = sum(abs(new_pr[i] - pr[i]) for i in range(n))
Delta == RSum([k \in 0..(n - 1) |-> RAbs(RSub(new_pr[k], pr[k]))], 0, n - 1)

\* denom = prev_sum if prev_sum != 0 else 1.0
Denom == IF prev_sum # Rat(0) THEN prev_sum ELSE Rat(1)

\* (delta / denom) <= tol
TestPasses == RLeq(RMul(Delta, <<Denom[2], Denom[1]>>), tol)

\* what the call has produced so far: nothing yet, or the returned (pr, iters)
Running == [status |-> "running", pr |-> <<>>, iters |-> 0]
Returned(ranks, iters) == [status |-> "returned", pr |-> ranks, iters |-> iters]

-----------------------------------------------------------------------------
(* pagerank_iterative: the state machine. *)

InitPR ==
    /\ n \in (-1)..MaxN
    /\ outlinks \in Graphs(n)
    /\ d \in Dampings
    /\ tol \in Tols
    /\ max_iter \in 0..MaxIter
    /\ incoming = <<>> /\ outdeg = <<>> /\ pr = <<>> /\ new_pr = <<>>
    /\ prev_sum = Rat(0) /\ dangling_mass = Rat(0)
    /\ it = 0 /\ a = 0 /\ passed = <<>>
    /\ result = Running
    /\ pc = "start"
    /\ n_pages = 0 /\ indeg = <<>> /\ i = 0 /\ html = <<>>
    /\ failed = {} /\ fetched = {} /\ gpc = "parked"
    /\ blob = [exists |-> FALSE, content |-> <<>>]
    /\ kind = <<>> /\ mpc = <<>> /\ existing = <<>> /\ deliveries = <<>>
    /\ uploads = <<>> /\ acks = <<>> /\ nacks = <<>> /\ raised = <<>>

\* if n <= 0: return [], 0, 0.0
EnterEmpty ==
    /\ pc = "start" /\ n <= 0
    /\ result' = Returned(<<>>, 0)
    /\ pc' = "done"
    /\ UNCHANGED <<n, d, tol, max_iter, incoming, outdeg, pr, new_pr, prev_sum,
                   dangling_mass, it, a, passed, outlinks, gvars, lvars>>

\* lines 112-124: incoming, outdeg, the uniform vector, prev_sum
EnterInit ==
    /\ pc = "start" /\ n > 0
    /\ incoming' = BuildIncoming([k \in 0..(n - 1) |-> <<>>], 0)
    /\ outdeg' = [k \in 0..(n - 1) |-> Len(OutlinksGet(k))]
    /\ pr' = [k \in 0..(n - 1) |-> Norm(1, n)]
    /\ prev_sum' = RSum(pr', 0, n - 1)
    /\ pc' = "loop"
    /\ UNCHANGED <<n, d, tol, max_iter, new_pr, dangling_mass, it, a, passed,
                   result, outlinks, gvars, lvars>>

\* a range(1, max_iter + 2) slip: one round too many
RoundStartOffByOne ==
    /\ pc = "loop" /\ it <= max_iter
    /\ it' = it + 1
    /\ dangling_mass' = DanglingMass(pr)
    /\ new_pr' = [k \in 0..(n - 1) |-> Rat(0)]
    /\ a' = 0
    /\ pc' = "node"
    /\ UNCHANGED <<n, d, tol, max_iter, incoming, outdeg, pr, prev_sum, passed,
                   result, outlinks, gvars, lvars>>

\* for it in range(1, max_iter + 1): dangling_mass, new_pr = [0.0] * n
RoundStart ==
    /\ pc = "loop" /\ it < max_iter
    /\ it' = it + 1
    /\ dangling_mass' = DanglingMass(pr)
    /\ new_pr' = [k \in 0..(n - 1) |-> Rat(0)]
    /\ a' = 0
    /\ pc' = "node"
    /\ UNCHANGED <<n, d, tol, max_iter, incoming, outdeg, pr, prev_sum, passed,
                   result, outlinks, gvars, lvars>>

\* one pass of "for a in range(n)"
NodeStep ==
    /\ pc = "node" /\ a < n
    /\ new_pr' = [new_pr EXCEPT ![a] = NewRank(a)]
    /\ a' = a + 1
    /\ pc' = IF a + 1 = n THEN "test" ELSE "node"
    /\ UNCHANGED <<n, d, tol, max_iter, incoming, outdeg, pr, prev_sum,
                   dangling_mass, it, passed, result, outlinks, gvars, lvars>>

\* if (delta / denom) <= tol: return new_pr, it, ...
Converged ==
    /\ pc = "test" /\ TestPasses
    /\ passed' = Append(passed, TRUE)
    /\ result' = Returned(new_pr, it)
    /\ pc' = "done"
    /\ UNCHANGED <<n, d, tol, max_iter, incoming, outdeg, pr, new_pr, prev_sum,
                   dangling_mass, it, a, outlinks, gvars, lvars>>

\* pr = new_pr; prev_sum = sum(pr)
NotConverged ==
    /\ pc = "test" /\ ~TestPasses
    /\ passed' = Append(passed, FALSE)
    /\ pr' = new_pr
    /\ prev_sum' = RSum(new_pr, 0, n - 1)
    /\ pc' = "loop"
    /\ UNCHANGED <<n, d, tol, max_iter, incoming, outdeg, new_pr, dangling_mass,
                   it, a, result, outlinks, gvars, lvars>>

\* the loop is exhausted: return pr, max_iter, ...
LoopExhausted ==
    /\ pc = "loop" /\ it >= max_iter
    /\ result' = Returned(pr, max_iter)
    /\ pc' = "done"
    /\ UNCHANGED <<n, d, tol, max_iter, incoming, outdeg, pr, new_pr, prev_sum,
                   dangling_mass, it, a, passed, outlinks, gvars, lvars>>

NextPR ==
    \/ EnterEmpty
    \/ EnterInit
    \/ RoundStart
    \/ NodeStep
    \/ Converged
    \/ NotConverged
    \/ LoopExhausted

SpecPR == InitPR /\ [][NextPR]_vars

-----------------------------------------------------------------------------
(* pagerank_iterative: the claims. *)

ValidDamping == RLeq(Rat(0), d) /\ RLt(d, Rat(1))

Solving == pc \in {"loop", "node", "test"}

\* C1: for n > 0 and any in-range graph (dangling pages and duplicate links
\* included) every round preserves the total rank mass and the returned vector
\* sums to 1.
C1_RankSumIsOne ==
    n > 0 =>
        /\ Solving => RSum(pr, 0, n - 1) = Rat(1)
        /\ pc = "test" => RSum(new_pr, 0, n - 1) = RSum(pr, 0, n - 1)
        /\ pc = "done" => RSum(result.pr, 0, n - 1) = Rat(1)

\* a returned vector of a graph with a dangling page and a duplicate link, after
\* two rounds
C1_Witness ==
    /\ pc = "done" /\ n > 1 /\ result.iters = 2
    /\ \E k \in 0..(n - 1) : outdeg[k] = 0
    /\ \E k \in 0..(n - 1) :
          \E p, q \in 1..Len(outlinks[k]) : p # q /\ outlinks[k][p] = outlinks[k][q]

\* C2: for n > 0 and 0 <= d < 1 no entry of the current or the new vector is
\* ever negative, and every computed entry and every returned entry is > 0.
C2_RanksPositive ==
    (n > 0 /\ ValidDamping) =>
        /\ Solving => \A k \in 0..(n - 1) : RLt(Rat(0), pr[k])
        /\ pc \in {"node", "test"} =>
              \A k \in 0..(n - 1) :
                  /\ RLeq(Rat(0), new_pr[k])
                  /\ (k < a => RLt(Rat(0), new_pr[k]))
        /\ pc = "done" =>
              /\ DOMAIN result.pr = 0..(n - 1)
              /\ \A k \in 0..(n - 1) : RLt(Rat(0), result.pr[k])

\* a returned vector for d = 0.85 after two rounds, one page without in-links
C2_Witness ==
    /\ pc = "done" /\ n > 1 /\ d = <<17, 20>> /\ result.iters = 2
    /\ \E k \in 0..(n - 1) : incoming[k] = <<>>

InvalidConfig == n < 0 \/ ~ValidDamping \/ max_iter <= 0

\* C3: with n < 0, d outside [0,1) or max_iter <= 0 no round begins and the call
\* ends in a configuration error, not in a returned vector.
C3_RejectsInvalidConfig ==
    InvalidConfig =>
        /\ pc # "node"
        /\ pc = "done" => result.status = "error"

\* C4: for n > 0 and max_iter >= 1 the call runs at most max_iter rounds, each a
\* pass over the n pages followed by one test; the returned count is the number of rounds run, every earlier round
\* failed the test, the last round passed it or was round max_iter, and the
\* returned vector is the one computed in the last round.
C4_BoundedRounds ==
    (n > 0 /\ max_iter >= 1) =>
        /\ it <= max_iter /\ Len(passed) <= it
        /\ pc = "node" => a < n
        /\ pc = "test" => a = n /\ Len(passed) = it - 1
        /\ pc = "done" =>
              /\ result.status = "returned"
              /\ result.iters = Len(passed)
              /\ result.iters \in 1..max_iter
              /\ \A k \in 1..(Len(passed) - 1) : ~passed[k]
              /\ passed[Len(passed)] \/ Len(passed) = max_iter
              /\ result.pr = new_pr

\* the budget of two or more rounds is used up without the test ever passing
C4_Witness ==
    /\ pc = "done" /\ n > 0 /\ max_iter >= 2
    /\ Len(passed) = max_iter /\ ~passed[max_iter]

\* the number of times page k occurs in the links of page s
Occurrences(s, k) == Cardinality({j \in 1..Len(outlinks[s]) : outlinks[s][j] = k})

\* the update of page k as the specification writes it, from the vector ranks
JacobiRank(k, ranks) ==
    LET share == [s \in 0..(n - 1) |->
                    IF Len(outlinks[s]) = 0 THEN Rat(0)
                    ELSE RMul(Rat(Occurrences(s, k)),
                              RDivInt(ranks[s], Len(outlinks[s])))]
        dangling == [s \in 0..(n - 1) |->
                    IF Len(outlinks[s]) = 0 THEN ranks[s] ELSE Rat(0)]
    IN  RAdd(RDivInt(RSub(Rat(1), d), n),
             RMul(d, RAdd(RSum(share, 0, n - 1),
                          RDivInt(RSum(dangling, 0, n - 1), n))))

\* C9: a round is a synchronous update: while the new vector is computed the
\* current one and dangling_mass do not change, each step stores in new_pr[a]
\* the specified value computed from the current vector and touches no other
\* entry, and pr changes only by becoming new_pr after a failed test.
C9_JacobiUpdate ==
    [][ /\ pc = "node" =>
              /\ pr' = pr /\ dangling_mass' = dangling_mass
              /\ new_pr'[a] = JacobiRank(a, pr)
              /\ \A k \in 0..(n - 1) : k # a => new_pr'[k] = new_pr[k]
        /\ (pc # "start" /\ pr' # pr) => (pc = "test" /\ pr' = new_pr)
      ]_vars

\* the second round is complete on a graph where page 1 is linked from page 0
\* and some page is dangling
C9_Witness ==
    /\ pc = "test" /\ it = 2 /\ n > 1
    /\ \E j \in 1..Len(outlinks[0]) : outlinks[0][j] = 1
    /\ \E k \in 0..(n - 1) : outdeg[k] = 0

-----------------------------------------------------------------------------
(* download_pages_build_graph: page texts and parsing. *)

\* A page text is a sequence of tags.  HREF_RE matches <a HREF="<digits>.html"
\* whatever the case of the letters; "a SRC" stands for any tag it does not match.
Tags == [form : {"a HREF"}, id : 0..MaxPages]
            \cup {[form |-> "A href", id |-> 0], [form |-> "a SRC", id |-> 0]}

Htmls == UNION {[1..len -> Tags] : len \in 0..MaxTokens}

\* HREF_RE, re.IGNORECASE
Matches(tag) == tag.form \in {"a HREF", "A href"}

\* parse_outgoing_ids: [int(x) for x in HREF_RE.findall(html)]
RECURSIVE parse_outgoing_ids(_)
parse_outgoing_ids(text) ==
    IF text = <<>> THEN <<>>
    ELSE IF Matches(Head(text))
         THEN <<Head(text).id>> \o parse_outgoing_ids(Tail(text))
         ELSE parse_outgoing_ids(Tail(text))

\* 0 <= d < n_pages
InRangeInclusive(dst) == 0 <= dst /\ dst <= n_pages
InRange(dst) == 0 <= dst /\ dst < n_pages

\* [d for d in outs if 0 <= d < n_pages]
FilterInRange(outs) == SelectSeq(outs, InRange)

\* a slip that counts each linked page once per source
CountDistinct(counts, outs) ==
    LET hit == {outs[j] : j \in 1..Len(outs)}
    IN  [p \in DOMAIN counts \cup hit |->
            (IF p \in DOMAIN counts THEN counts[p] ELSE 0)
                + (IF p \in hit THEN 1 ELSE 0)]

\* for d in outs: indeg[d] += 1   (indeg is a defaultdict(int))
RECURSIVE CountLinks(_, _)
CountLinks(counts, outs) ==
    IF outs = <<>> THEN counts
    ELSE LET dst == Head(outs)
             bumped == [p \in DOMAIN counts \cup {dst} |->
                          IF p = dst
                          THEN (IF dst \in DOMAIN counts THEN counts[dst] ELSE 0) + 1
                          ELSE counts[p]]
         IN  CountLinks(bumped, Tail(outs))

\* main: in_counts = [int(indeg.get(i, 0)) for i in range(n)]
IndegGet(p) == IF p \in DOMAIN indeg THEN indeg[p] ELSE 0

\* main: out_counts = [len(outlinks[i]) for i in range(n)]
OutCount(p) == Len(outlinks[p])

\* n_pages = n_expected, or max(idxs) + 1, or 0; n_expected is <<>> for None
SetMax(S) == CHOOSE x \in S : \A y \in S : y <= x
ResolvePages(n_expected, idxs) ==
    IF n_expected # <<>> THEN n_expected[1]
    ELSE IF idxs # {} THEN SetMax(idxs) + 1 ELSE 0

-----------------------------------------------------------------------------
(* download_pages_build_graph: the state machine. *)

InitGraph ==
    /\ n_pages = 0 /\ outlinks = <<>> /\ indeg = <<>> /\ i = 0 /\ html = <<>>
    /\ failed = {} /\ fetched = {} /\ gpc = "list"
    /\ n = 0 /\ d = Rat(0) /\ tol = Rat(0) /\ max_iter = 0
    /\ incoming = <<>> /\ outdeg = <<>> /\ pr = <<>> /\ new_pr = <<>>
    /\ prev_sum = Rat(0) /\ dangling_mass = Rat(0)
    /\ it = 0 /\ a = 0 /\ passed = <<>> /\ result = Running /\ pc = "parked"
    /\ blob = [exists |-> FALSE, content |-> <<>>]
    /\ kind = <<>> /\ mpc = <<>> /\ existing = <<>> /\ deliveries = <<>>
    /\ uploads = <<>> /\ acks = <<>> /\ nacks = <<>> /\ raised = <<>>

\* lines 71-80: the listing succeeds and fixes n_pages; the dicts start empty
Resolve ==
    /\ gpc = "list"
    /\ \E n_expected \in {<<>>} \cup {<<k>> : k \in 0..MaxPages},
          idxs \in SUBSET (0..(MaxPages - 1)) :
            n_pages' = ResolvePages(n_expected, idxs)
    /\ outlinks' = <<>> /\ indeg' = <<>> /\ i' = 0
    /\ gpc' = "loop"
    /\ UNCHANGED <<html, failed, fetched, prvars, lvars>>

\* line 71: client.list_blobs raises and the exception leaves the function
ListFails ==
    /\ gpc = "list"
    /\ gpc' = "raised"
    /\ UNCHANGED <<n_pages, outlinks, indeg, i, html, failed, fetched, prvars, lvars>>

\* lines 86-87: blob.download_as_text() returns the page text
FetchOk ==
    /\ gpc = "loop" /\ i < n_pages
    /\ \E text \in Htmls : html' = text
    /\ fetched' = fetched \cup {i}
    /\ gpc' = "parse"
    /\ UNCHANGED <<n_pages, outlinks, indeg, i, failed, prvars, lvars>>

\* a download error that is not caught leaves the function
FetchFailsRaises ==
    /\ gpc = "loop" /\ i < n_pages
    /\ fetched' = fetched \cup {i}
    /\ failed' = failed \cup {i}
    /\ gpc' = "raised"
    /\ UNCHANGED <<n_pages, outlinks, indeg, i, html, prvars, lvars>>

\* lines 86-89: blob.download_as_text() raises; except Exception: html = ""
FetchFails ==
    /\ gpc = "loop" /\ i < n_pages
    /\ html' = <<>>
    /\ fetched' = fetched \cup {i}
    /\ failed' = failed \cup {i}
    /\ gpc' = "parse"
    /\ UNCHANGED <<n_pages, outlinks, indeg, i, prvars, lvars>>

\* lines 91-95: parse, filter, store outlinks[i], count the in-degrees
Process ==
    /\ gpc = "parse"
    /\ LET outs == FilterInRange(parse_outgoing_ids(html))
       IN  /\ outlinks' = [p \in DOMAIN outlinks \cup {i} |->
                              IF p = i THEN outs ELSE outlinks[p]]
           /\ indeg' = CountLinks(indeg, outs)
    /\ i' = i + 1
    /\ gpc' = "loop"
    /\ UNCHANGED <<n_pages, html, failed, fetched, prvars, lvars>>

\* lines 97-98: the loop is over; return n_pages, outlinks, indeg
Finish ==
    /\ gpc = "loop" /\ i >= n_pages
    /\ gpc' = "done"
    /\ UNCHANGED <<n_pages, outlinks, indeg, i, html, failed, fetched, prvars, lvars>>

NextGraph ==
    \/ Resolve
    \/ ListFails
    \/ FetchOk
    \/ FetchFails
    \/ Process
    \/ Finish

SpecGraph == InitGraph /\ [][NextGraph]_vars

-----------------------------------------------------------------------------
(* download_pages_build_graph: the claims. *)

\* the number of positions of the sequence seq that hold v
Count(seq, v) == Cardinality({j \in 1..Len(seq) : seq[j] = v})

RECURSIVE SumOver(_, _)
SumOver(f, S) ==
    IF S = {} THEN 0
    ELSE LET x == CHOOSE y \in S : TRUE IN f[x] + SumOver(f, S \ {x})

Pages == 0..(n_pages - 1)

\* the links to page p from the sources in S, every occurrence counted
LinksTo(p, S) == SumOver([s \in S |-> Count(outlinks[s], p)], S)

\* C5: a download that raises never ends the build: the exception leaves the
\* function only from the listing, the failed page gets the empty list, every
\* id of [0, n_pages) is still fetched and stored, and the in-degrees count
\* only links of the pages whose download succeeded.
C5_FetchFailureDegrades ==
    /\ gpc = "raised" => fetched = {}
    /\ \A p \in failed : p \in DOMAIN outlinks => outlinks[p] = <<>>
    /\ gpc = "done" =>
          /\ fetched = Pages /\ DOMAIN outlinks = Pages
          /\ \A p \in Pages : IndegGet(p) = LinksTo(p, Pages \ failed)

\* the build is over, the download of a page that is not the last one failed
\* and another page has links
C5_Witness ==
    /\ gpc = "done"
    /\ \E p \in failed : p < n_pages - 1
    /\ \E p \in Pages \ failed : outlinks[p] # <<>>

\* the in-range link ids of a page text, in page order
LinkIds(text) ==
    LET keep == SelectSeq(text, LAMBDA t : Matches(t) /\ t.id \in Pages)
    IN  [j \in 1..Len(keep) |-> keep[j].id]

\* C6: the returned graph has exactly the keys [0, n_pages) and only
\* destinations in [0, n_pages); the list stored for a page holds the in-range
\* link ids of its text in page order, duplicates included, and stored lists
\* are not changed afterwards.
C6_GraphWellFormed ==
    [][ /\ gpc = "parse" =>
              /\ DOMAIN outlinks' = DOMAIN outlinks \cup {i}
              /\ outlinks'[i] = LinkIds(html)
              /\ \A p \in DOMAIN outlinks \ {i} : outlinks'[p] = outlinks[p]
        /\ gpc' = "done" =>
              /\ DOMAIN outlinks' = 0..(n_pages' - 1)
              /\ \A p \in DOMAIN outlinks' : \A j \in 1..Len(outlinks'[p]) :
                    0 <= outlinks'[p][j] /\ outlinks'[p][j] < n_pages'
      ]_vars

\* the build is over, the last page's text held an out-of-range link before an
\* in-range one, and some page links twice to the same page
C6_Witness ==
    /\ gpc = "done" /\ n_pages > 0 /\ (n_pages - 1) \notin failed
    /\ Len(html) = 2 /\ Matches(html[1]) /\ html[1].id >= n_pages
    /\ Len(outlinks[n_pages - 1]) = 1
    /\ \E s \in Pages : \E p \in Pages : Count(outlinks[s], p) >= 2

\* C7: for every page p, InDegree(p) is the number of occurrences of p in all
\* the stored lists, repeated links of one source counted separately; so the
\* in-degrees and the out-degrees have the same sum.
C7_InDegreeCountsOccurrences ==
    /\ DOMAIN indeg \subseteq Pages
    /\ gpc \in {"loop", "done"} =>
          /\ \A p \in Pages : IndegGet(p) = LinksTo(p, DOMAIN outlinks)
          /\ gpc = "done" =>
                SumOver([p \in Pages |-> IndegGet(p)], Pages)
                    = SumOver([p \in Pages |-> OutCount(p)], Pages)

\* the build is over and one page links twice to the same page
C7_Witness ==
    /\ gpc = "done"
    /\ \E s \in Pages : \E p \in Pages : Count(outlinks[s], p) >= 2 /\ IndegGet(p) >= 2

-----------------------------------------------------------------------------
(* main_service2.py: the subscriber callback and append_to_gcs.  The          *)
(* subscriber runs callbacks of different messages concurrently, so the       *)
(* steps below interleave at the calls to the object store.                   *)

Msgs == 1..MaxMsgs

\* log_line of a delivery: it carries logged_at, so each delivery has its own
LogLine(m) == <<m, deliveries[m]>>

InitLog ==
    /\ blob = [exists |-> FALSE, content |-> <<>>]
    /\ kind \in [Msgs -> {"event", "malformed"}]
    /\ mpc = [m \in Msgs |-> "queued"]
    /\ existing = [m \in Msgs |-> <<>>]
    /\ deliveries = [m \in Msgs |-> 0]
    /\ uploads = [m \in Msgs |-> {}]
    /\ acks = [m \in Msgs |-> {}]
    /\ nacks = [m \in Msgs |-> {}]
    /\ raised = [m \in Msgs |-> {}]
    /\ n_pages = 0 /\ outlinks = <<>> /\ indeg = <<>> /\ i = 0 /\ html = <<>>
    /\ failed = {} /\ fetched = {} /\ gpc = "parked"
    /\ n = 0 /\ d = Rat(0) /\ tol = Rat(0) /\ max_iter = 0
    /\ incoming = <<>> /\ outdeg = <<>> /\ pr = <<>> /\ new_pr = <<>>
    /\ prev_sum = Rat(0) /\ dangling_mass = Rat(0)
    /\ it = 0 /\ a = 0 /\ passed = <<>> /\ result = Running /\ pc = "parked"

\* line 112: the subscriber hands a pending message to callback
Deliver(m) ==
    /\ mpc[m] = "queued" /\ deliveries[m] < MaxDeliv
    /\ deliveries' = [deliveries EXCEPT ![m] = @ + 1]
    /\ mpc' = [mpc EXCEPT ![m] = "parse"]
    /\ UNCHANGED <<blob, kind, existing, uploads, acks, nacks, raised>>

\* lines 75-103: the data is a JSON object; log_line is built; append_to_gcs
\* starts with existing = b""
ParseOk(m) ==
    /\ mpc[m] = "parse" /\ kind[m] = "event"
    /\ existing' = [existing EXCEPT ![m] = <<>>]
    /\ mpc' = [mpc EXCEPT ![m] = "exists"]
    /\ UNCHANGED <<blob, kind, deliveries, uploads, acks, nacks, raised>>

\* lines 76-82: json.loads or payload.get raises
ParseFails(m) ==
    /\ mpc[m] = "parse" /\ kind[m] = "malformed"
    /\ raised' = [raised EXCEPT ![m] = @ \cup {deliveries[m]}]
    /\ mpc' = [mpc EXCEPT ![m] = "nack"]
    /\ UNCHANGED <<blob, kind, existing, deliveries, uploads, acks, nacks>>

\* line 56: blob.exists() answers
ExistsAnswers(m) ==
    /\ mpc[m] = "exists"
    /\ mpc' = [mpc EXCEPT ![m] = IF blob.exists THEN "download" ELSE "upload"]
    /\ UNCHANGED <<blob, kind, existing, deliveries, uploads, acks, nacks, raised>>

\* lines 56-59: blob.exists() raises; except Exception: existing = b""
ExistsRaises(m) ==
    /\ mpc[m] = "exists"
    /\ existing' = [existing EXCEPT ![m] = <<>>]
    /\ mpc' = [mpc EXCEPT ![m] = "upload"]
    /\ UNCHANGED <<blob, kind, deliveries, uploads, acks, nacks, raised>>

\* line 57: existing = blob.download_as_bytes()
DownloadOk(m) ==
    /\ mpc[m] = "download"
    /\ existing' = [existing EXCEPT ![m] = blob.content]
    /\ mpc' = [mpc EXCEPT ![m] = "upload"]
    /\ UNCHANGED <<blob, kind, deliveries, uploads, acks, nacks, raised>>

\* lines 57-59: the download raises; except Exception: existing = b""
DownloadRaises(m) ==
    /\ mpc[m] = "download"
    /\ existing' = [existing EXCEPT ![m] = <<>>]
    /\ mpc' = [mpc EXCEPT ![m] = "upload"]
    /\ UNCHANGED <<blob, kind, deliveries, uploads, acks, nacks, raised>>

\* lines 61-62: upload_from_string(existing + line) replaces the object
UploadOk(m) ==
    /\ mpc[m] = "upload"
    /\ blob' = [exists |-> TRUE, content |-> Append(existing[m], LogLine(m))]
    /\ uploads' = [uploads EXCEPT ![m] = @ \cup {deliveries[m]}]
    /\ mpc' = [mpc EXCEPT ![m] = "ack"]
    /\ UNCHANGED <<kind, existing, deliveries, acks, nacks, raised>>

\* an upload error swallowed instead of reaching the callback's except
UploadRaisesSwallowed(m) ==
    /\ mpc[m] = "upload"
    /\ raised' = [raised EXCEPT ![m] = @ \cup {deliveries[m]}]
    /\ mpc' = [mpc EXCEPT ![m] = "ack"]
    /\ UNCHANGED <<blob, kind, existing, deliveries, uploads, acks, nacks>>

\* line 62: upload_from_string raises; the exception reaches line 107
UploadRaises(m) ==
    /\ mpc[m] = "upload"
    /\ raised' = [raised EXCEPT ![m] = @ \cup {deliveries[m]}]
    /\ mpc' = [mpc EXCEPT ![m] = "nack"]
    /\ UNCHANGED <<blob, kind, existing, deliveries, uploads, acks, nacks>>

\* line 106: message.ack()
Ack(m) ==
    /\ mpc[m] = "ack"
    /\ acks' = [acks EXCEPT ![m] = @ \cup {deliveries[m]}]
    /\ mpc' = [mpc EXCEPT ![m] = "acked"]
    /\ UNCHANGED <<blob, kind, existing, deliveries, uploads, nacks, raised>>

\* lines 107-110: message.nack(); the message will be delivered again
Nack(m) ==
    /\ mpc[m] = "nack"
    /\ nacks' = [nacks EXCEPT ![m] = @ \cup {deliveries[m]}]
    /\ mpc' = [mpc EXCEPT ![m] = "queued"]
    /\ UNCHANGED <<blob, kind, existing, deliveries, uploads, acks, raised>>

Others == <<prvars, outlinks, gvars>>

NextLog ==
    \/ \E m \in Msgs : Deliver(m) /\ UNCHANGED Others
    \/ \E m \in Msgs : ParseOk(m) /\ UNCHANGED Others
    \/ \E m \in Msgs : ParseFails(m) /\ UNCHANGED Others
    \/ \E m \in Msgs : ExistsAnswers(m) /\ UNCHANGED Others
    \/ \E m \in Msgs : ExistsRaises(m) /\ UNCHANGED Others
    \/ \E m \in Msgs : DownloadOk(m) /\ UNCHANGED Others
    \/ \E m \in Msgs : DownloadRaises(m) /\ UNCHANGED Others
    \/ \E m \in Msgs : UploadOk(m) /\ UNCHANGED Others
    \/ \E m \in Msgs : UploadRaises(m) /\ UNCHANGED Others
    \/ \E m \in Msgs : Ack(m) /\ UNCHANGED Others
    \/ \E m \in Msgs : Nack(m) /\ UNCHANGED Others

SpecLog == InitLog /\ [][NextLog]_vars

-----------------------------------------------------------------------------
(* main_service2.py: the claims. *)

\* the deliveries of message m whose callback has returned
Ended(m) ==
    IF mpc[m] \in {"queued", "acked"} THEN 1..deliveries[m]
    ELSE 1..(deliveries[m] - 1)

\* C8: a delivery is acked only if its upload of the log line completed; a
\* delivery in which parsing or the append raised is nacked and not acked; and
\* every delivery that has ended ended in exactly one of ack and nack.
C8_AckAfterUpload ==
    \A m \in Msgs :
        /\ acks[m] \subseteq uploads[m]
        /\ acks[m] \cap raised[m] = {}
        /\ acks[m] \cap nacks[m] = {}
        /\ acks[m] \cup nacks[m] = Ended(m)
        /\ raised[m] \cap Ended(m) \subseteq nacks[m]

\* a message whose first upload raised was nacked, delivered again and acked,
\* and a malformed message was nacked
C8_Witness ==
    /\ \E m \in Msgs : 1 \in nacks[m] /\ 2 \in acks[m]
    /\ \E m \in Msgs : kind[m] = "malformed" /\ nacks[m] # {}

\* C10: the log object holds the line of every delivery acknowledged so far.
C10_LogOnlyGrows ==
    \A m \in Msgs : \A j \in acks[m] :
        \E p \in 1..Len(blob.content) : blob.content[p] = <<m, j>>

=============================================================================
